---- MODULE Spec2Model ----
(***************************************************************************)
(* The voxel chunk mesher of TCGE, in its two variants:                    *)
(*   mesh       (src/src/client/blocks/mesher.rs): non-indexed, f32        *)
(*              vertices, six triangle vertices per face, no neighbourhood *)
(*   mesh_chunk (tcge-client/.../test_blocks/chunk_mesher.rs): indexed,    *)
(*              f16 vertices, four vertices per face, edge-padded block    *)
(*              data, reusable MesherThreadState                           *)
(* Positions are integers; texture coordinates are counted in sixteenths.  *)
(***************************************************************************)
EXTENDS Integers, Sequences, FiniteSets, TLC

\* ------------------------------------------------------------------ bounds
\* Edge length of a chunk (16 in the program; scaled down here).
CHUNK_SIZE == 2
\* x chunk coordinate of a far-away chunk: FarChunk * CHUNK_SIZE >= 2048,
\* beyond the range in which a half float holds every integer.
FarChunk == 1024
\* Longest destination handed to quad_to_tris, in quads.
MaxQuads == 3

\* ------------------------------------------------------------ block states
\* Raw id of the default state of "air" and of "adm" (bedrock).
air == 0
adm == 1
Blocks == {air, adm}

VARIABLES
    variant,    \* which mesher this build runs: "mesh" or "mesh_chunk"
    origin,     \* chunk coordinate of the chunk under the camera
    chunks,     \* chunk position -> Chunk [pos, blocks]
    mesher,     \* the worker's MesherThreadState [vertices, quad_buf]
    mesh_state, \* the ChunkMeshState the renderer holds: the last one returned
    glBuffers,  \* live GL buffer names -> their data
    glArrays,   \* live GL vertex-array names -> the buffer they describe
    pass,       \* record of the last meshing pass
    src,        \* the quad last handed to quad_to_tris
    dst,        \* destination vector of quad_to_tris
    gl_calls,   \* the GL calls of the last step, each [op, arg]
    threads,    \* worker -> its position in a mesh_chunk call
    states      \* MesherThreadState id -> that thread state

vars == <<variant, origin, chunks, mesher, mesh_state, glBuffers, glArrays, pass, src, dst,
          gl_calls, threads, states>>

\* ---------------------------------------------------------------- numbers
RECURSIVE UlpExp(_, _, _)
\* least e with n < 2^(p+e), for n >= 0
UlpExp(n, p, e) ==
    IF n < 2 ^ (p + e) THEN e ELSE UlpExp(n, p, e + 1)

\* n rounded to p significant bits, ties to even: what a conversion to a
\* binary float with a p-bit significand does to an in-range value.
RoundSig(n, p) ==
    LET a == IF n < 0 THEN -n ELSE n
        ulp == 2 ^ UlpExp(a, p, 0)
        q == a \div ulp
        r == a % ulp
        up == (2 * r > ulp) \/ (2 * r = ulp /\ q % 2 = 1)
        m == IF up THEN (q + 1) * ulp ELSE q * ulp
    IN  IF a < 2 ^ p THEN n ELSE IF n < 0 THEN -m ELSE m

\* `as f32` and f32 arithmetic: 24-bit significand; every integer below 2^24
\* is a value of the type.
F32(n) ==
    IF -16777216 < n /\ n < 16777216 THEN n ELSE RoundSig(n, 24)

\* f16::from_f32: 11-bit significand, so every integer below 2^11 is a value
\* of the type; finite up to 65504, beyond it infinity, written 65536 here.
f16_from_f32(n) ==
    IF -2048 < n /\ n < 2048
    THEN n
    ELSE LET r == RoundSig(n, 11)
         IN  IF r >= 65536 THEN 65536 ELSE IF r <= -65536 THEN -65536 ELSE r

\* ------------------------------------------------------------------ chunks
Locals == (0 .. CHUNK_SIZE - 1) \X (0 .. CHUNK_SIZE - 1) \X (0 .. CHUNK_SIZE - 1)

Add3(a, b) ==
    <<a[1] + b[1], a[2] + b[2], a[3] + b[3]>>

\* The six axis directions.
PX == <<1, 0, 0>>
PY == <<0, 1, 0>>
PZ == <<0, 0, 1>>
NX == <<-1, 0, 0>>
NY == <<0, -1, 0>>
NZ == <<0, 0, -1>>
Dirs == {PX, PY, PZ, NX, NY, NZ}

\* Absolute block coordinate of the first block of the chunk at position p.
to_block_coord_tuple(p) ==
    <<p[1] * CHUNK_SIZE, p[2] * CHUNK_SIZE, p[3] * CHUNK_SIZE>>

\* Chunk coordinate and local offset of an absolute block coordinate.
ChunkOf(b) ==
    <<b[1] \div CHUNK_SIZE, b[2] \div CHUNK_SIZE, b[3] \div CHUNK_SIZE>>

LocalOf(b) ==
    <<b[1] % CHUNK_SIZE, b[2] % CHUNK_SIZE, b[3] % CHUNK_SIZE>>

InChunk(x, y, z) ==
    /\ 0 <= x /\ x < CHUNK_SIZE
    /\ 0 <= y /\ y < CHUNK_SIZE
    /\ 0 <= z /\ z < CHUNK_SIZE

\* Option values: None is <<>>, Some(v) is <<v>>.
None == <<>>
Some(v) == <<v>>

unwrap_or(opt, default) ==
    IF opt = None THEN default ELSE opt[1]

\* Chunk::get_block: the checked lookup.
Chunk_get_block(chunk, x, y, z) ==
    IF InChunk(x, y, z) THEN Some(chunk.blocks[<<x, y, z>>]) ELSE None

\* ------------------------------------------------------- mesher.rs: mesh
Vertex(x, y, z, u, v) ==
    [x |-> x, y |-> y, z |-> z, u |-> u, v |-> v]

\* BlockUv::new_from_pos, in sixteenths: s = 1/16.
BlockUv_new_from_pos(x, y) ==
    [umin |-> x, umax |-> x + 1, vmin |-> y, vmax |-> y + 1]

\* The four corners of a face, each <<x, y, z>> with N = 0 and S = 1, in the
\* order the source lists them.
FaceCorners(d) ==
    CASE d = PY -> <<<<0, 1, 1>>, <<1, 1, 1>>, <<1, 1, 0>>, <<0, 1, 0>>>>
      [] d = NY -> <<<<0, 0, 0>>, <<1, 0, 0>>, <<1, 0, 1>>, <<0, 0, 1>>>>
      [] d = NZ -> <<<<0, 1, 0>>, <<1, 1, 0>>, <<1, 0, 0>>, <<0, 0, 0>>>>
      [] d = PZ -> <<<<0, 0, 1>>, <<1, 0, 1>>, <<1, 1, 1>>, <<0, 1, 1>>>>
      [] d = NX -> <<<<0, 1, 1>>, <<0, 1, 0>>, <<0, 0, 0>>, <<0, 0, 1>>>>
      [] d = PX -> <<<<1, 0, 1>>, <<1, 0, 0>>, <<1, 1, 0>>, <<1, 1, 1>>>>

\* The quad literal of one face: corners with (umin,vmin), (umax,vmin),
\* (umax,vmax), (umin,vmax).
FaceQuad(d, uv) ==
    LET c == FaceCorners(d)
    IN  << Vertex(c[1][1], c[1][2], c[1][3], uv.umin, uv.vmin),
           Vertex(c[2][1], c[2][2], c[2][3], uv.umax, uv.vmin),
           Vertex(c[3][1], c[3][2], c[3][3], uv.umax, uv.vmax),
           Vertex(c[4][1], c[4][2], c[4][3], uv.umin, uv.vmax) >>

quad_to_tris_swapped(quad, vec) ==
    vec \o <<quad[1], quad[2], quad[3], quad[2], quad[3], quad[4]>>

quad_to_tris_five(quad, vec) ==
    vec \o <<quad[1], quad[2], quad[4], quad[2], quad[3]>>

quad_to_tris(quad, vec) ==
    vec \o <<quad[1], quad[2], quad[4], quad[2], quad[3], quad[4]>>

\* chunk.get_block(x, y, z).unwrap_or(air) == air
neighbour_is_air_solid_default(chunk, x, y, z) ==
    unwrap_or(Chunk_get_block(chunk, x, y, z), adm) = air

neighbour_is_air(chunk, x, y, z) ==
    unwrap_or(Chunk_get_block(chunk, x, y, z), air) = air

\* One face of the block at (x, y, z): its quad when the neighbour in
\* direction d is air.
mesh_face(vertices, chunk, x, y, z, d, uv) ==
    IF neighbour_is_air(chunk, x + d[1], y + d[2], z + d[3])
    THEN quad_to_tris(FaceQuad(d, uv), vertices)
    ELSE vertices

\* vertex.x += (x + cpos.x*CHUNK_SIZE as isize) as f32, and y, z alike.
mesh_translate(vertex, chunk, x, y, z) ==
    [vertex EXCEPT
        !.x = F32(@ + F32(x + chunk.pos[1] * CHUNK_SIZE)),
        !.y = F32(@ + F32(y + chunk.pos[2] * CHUNK_SIZE)),
        !.z = F32(@ + F32(z + chunk.pos[3] * CHUNK_SIZE))]

\* The body of the innermost loop of mesh for one coordinate.
mesh_block(vertices, chunk, x, y, z) ==
    LET block == unwrap_or(Chunk_get_block(chunk, x, y, z), air)
        cbp == Len(vertices)
        uv == BlockUv_new_from_pos((block % 256) - 1, 0)
        v1 == mesh_face(vertices, chunk, x, y, z, PY, uv)
        v2 == mesh_face(v1, chunk, x, y, z, NY, uv)
        v3 == mesh_face(v2, chunk, x, y, z, NZ, uv)
        v4 == mesh_face(v3, chunk, x, y, z, PZ, uv)
        v5 == mesh_face(v4, chunk, x, y, z, NX, uv)
        v6 == mesh_face(v5, chunk, x, y, z, PX, uv)
    IN  IF block = air
        THEN vertices
        ELSE [i \in 1 .. Len(v6) |->
                IF i > cbp THEN mesh_translate(v6[i], chunk, x, y, z) ELSE v6[i]]

\* The i-th coordinate of the traversal `for y { for z { for x` .
LoopX(i) == i % CHUNK_SIZE
LoopZ(i) == (i \div CHUNK_SIZE) % CHUNK_SIZE
LoopY(i) == i \div (CHUNK_SIZE * CHUNK_SIZE)
LoopEnd == CHUNK_SIZE * CHUNK_SIZE * CHUNK_SIZE

RECURSIVE mesh_loop(_, _, _)
mesh_loop(vertices, chunk, i) ==
    IF i >= LoopEnd
    THEN vertices
    ELSE mesh_loop(mesh_block(vertices, chunk, LoopX(i), LoopY(i), LoopZ(i)),
                   chunk, i + 1)

\* The vertex list mesh hands to upload.
mesh_vertices(chunk) ==
    mesh_loop(<<>>, chunk, 0)

\* ---------------------------------------------------------------- GL
\* glGenBuffers / glGenVertexArrays: a name not in use.
GenName(live) ==
    CHOOSE k \in 1 .. (Cardinality(live) + 1) :
        k \notin live /\ \A j \in 1 .. (k - 1) : j \in live

BufferNames(bufs) == {b.id : b \in bufs}
ArrayNames(arrs) == {a.id : a \in arrs}

Unallocated == [tag |-> "Unallocated", vao |-> 0, vbo |-> 0, count |-> 0]
Empty == [tag |-> "Empty", vao |-> 0, vbo |-> 0, count |-> 0]
Released == [tag |-> "Released", vao |-> 0, vbo |-> 0, count |-> 0]
Meshed(vao, vbo, count) ==
    [tag |-> "Meshed", vao |-> vao, vbo |-> vbo, count |-> count]

\* upload of mesher.rs: the result, the GL objects after it, and how many
\* GL objects it generated.
upload_always(chunk, mesh_data, bufs, arrs) ==
    LET vbo == GenName(BufferNames(bufs))
        vao == GenName(ArrayNames(arrs))
    IN  [state |-> Meshed(vao, vbo, Len(mesh_data)),
         buffers |-> bufs \cup {[id |-> vbo, len |-> Len(mesh_data)]},
         arrays |-> arrs \cup {[id |-> vao, vbo |-> vbo]},
         gen |-> 2]

\* What glGenBuffers / glGenVertexArrays leaves in the variable the caller
\* zeroed: a fresh name, or the 0 when the driver creates nothing.
GenOrZero(ok, live) ==
    IF ok THEN GenName(live) ELSE 0

\* upload of mesher.rs with the driver's two answers as inputs. No object
\* exists under the name 0, so binding it stores nothing.
upload_driver(chunk, mesh_data, bufs, arrs, vbo_ok, vao_ok) ==
    IF Len(mesh_data) = 0
    THEN [state |-> Empty, buffers |-> bufs, arrays |-> arrs, gen |-> 0]
    ELSE LET vertex_count == Len(mesh_data)
             vbo == GenOrZero(vbo_ok, BufferNames(bufs))
             vao == GenOrZero(vao_ok, ArrayNames(arrs))
         IN  [state |-> Meshed(vao, vbo, vertex_count),
              buffers |-> IF vbo = 0
                          THEN bufs
                          ELSE bufs \cup {[id |-> vbo, len |-> Len(mesh_data)]},
              arrays |-> IF vao = 0
                         THEN arrs
                         ELSE arrs \cup {[id |-> vao, vbo |-> vbo]},
              gen |-> 2]

\* upload of mesher.rs on a driver that creates every object asked for.
upload(chunk, mesh_data, bufs, arrs) ==
    upload_driver(chunk, mesh_data, bufs, arrs, TRUE, TRUE)

\* ------------------------------------------- chunk_mesher.rs: mesh_chunk
\* MesherThreadState::new and ::reset.
MesherThreadState_new ==
    [vertices |-> <<>>, quad_buf |-> <<>>]

reset_keeps_vertices(m) ==
    [m EXCEPT !.quad_buf = <<>>]

reset(m) ==
    [m EXCEPT !.vertices = <<>>, !.quad_buf = <<>>]

\* The block of chunk `chunk` or of its neighbourhood `nb` (a set of chunks)
\* at the local coordinate (x, y, z) of `chunk`, each in -1 .. CHUNK_SIZE;
\* air where no chunk of the neighbourhood holds the position.
EdgeBlock(chunk, nb, x, y, z) ==
    LET b == Add3(to_block_coord_tuple(chunk.pos), <<x, y, z>>)
        owner == {c \in nb : c.pos = ChunkOf(b)}
    IN  IF InChunk(x, y, z)
        THEN chunk.blocks[<<x, y, z>>]
        ELSE IF owner = {}
             THEN air
             ELSE (CHOOSE c \in owner : TRUE).blocks[LocalOf(b)]

\* The edge-padded block data of a chunk: indices 0 .. CHUNK_SIZE+1 in the
\* order [y][z][x], index = local coordinate + 1.
ChunkWithEdge(chunk, nb) ==
    [iy \in 0 .. CHUNK_SIZE + 1 |->
        [iz \in 0 .. CHUNK_SIZE + 1 |->
            [ix \in 0 .. CHUNK_SIZE + 1 |->
                EdgeBlock(chunk, nb, ix - 1, iy - 1, iz - 1)]]]

\* What a get_unchecked outside its array yields: undefined behaviour, kept
\* apart from every block state.
Undefined == -1

get_block_index_unpadded(local_x, local_y, local_z) ==
    <<local_y, local_z, local_x>>

\* The three indices the closure get_block hands to get_unchecked, outermost
\* first.
get_block_index(local_x, local_y, local_z) ==
    <<local_y + 1, local_z + 1, local_x + 1>>

\* The three nested get_unchecked calls.
get_unchecked(block_data, idx) ==
    IF idx[1] \in DOMAIN block_data
    THEN IF idx[2] \in DOMAIN block_data[idx[1]]
         THEN IF idx[3] \in DOMAIN block_data[idx[1]][idx[2]]
              THEN block_data[idx[1]][idx[2]][idx[3]]
              ELSE Undefined
         ELSE Undefined
    ELSE Undefined

\* The local closure get_block of mesh_chunk.
get_block(block_data, local_x, local_y, local_z) ==
    get_unchecked(block_data, get_block_index(local_x, local_y, local_z))

\* BakeryContext: the six occlusion flags in the order +x, +y, +z, -x, -y, -z
\* and the has-occlusion-data flag.
BakeryContext_new ==
    [occlusion |-> <<FALSE, FALSE, FALSE, FALSE, FALSE, FALSE>>, has_data |-> FALSE]

set_occlusion(px, py, pz, nx, ny, nz, has_data) ==
    [occlusion |-> <<px, py, pz, nx, ny, nz>>, has_data |-> has_data]

ContextDirs == <<PX, PY, PZ, NX, NY, NZ>>

\* StaticBlockBakery::render_block: the faces (quads a, b, c, d of
\* BakedBlockMeshVertex) of one block, one for every direction the context
\* does not mark occluded, from direction k on.
RECURSIVE render_faces(_, _, _)
render_faces(context, uv, k) ==
    IF k > 6
    THEN <<>>
    ELSE LET q == FaceQuad(ContextDirs[k], uv)
             rest == render_faces(context, uv, k + 1)
         IN  IF context.has_data /\ context.occlusion[k]
             THEN rest
             ELSE <<[a |-> q[1], b |-> q[2], c |-> q[3], d |-> q[4]]>> \o rest

render_block(context, block) ==
    render_faces(context, BlockUv_new_from_pos((block % 256) - 1, 0), 1)

\* ChunkMeshVertex::new_from; `offset` holds the block coordinate already
\* converted to f32, `ao` is zero.
ChunkMeshVertex_new_from(other, ao, offset) ==
    [x |-> f16_from_f32(F32(other.x + offset[1])),
     y |-> f16_from_f32(F32(other.y + offset[2])),
     z |-> f16_from_f32(F32(other.z + offset[3])),
     u |-> f16_from_f32(other.u),
     v |-> f16_from_f32(other.v),
     ao |-> f16_from_f32(ao)]

\* The closure handed to render_block, applied to every face in turn.
RECURSIVE push_faces(_, _, _, _)
push_faces(vertices, faces, k, offset) ==
    IF k > Len(faces)
    THEN vertices
    ELSE push_faces(
            vertices \o << ChunkMeshVertex_new_from(faces[k].a, 0, offset),
                           ChunkMeshVertex_new_from(faces[k].b, 0, offset),
                           ChunkMeshVertex_new_from(faces[k].c, 0, offset),
                           ChunkMeshVertex_new_from(faces[k].d, 0, offset) >>,
            faces, k + 1, offset)

block_occlusion_inverted(block_data, x, y, z) ==
    set_occlusion(
        get_block(block_data, x + 1, y, z) = air,
        get_block(block_data, x, y + 1, z) = air,
        get_block(block_data, x, y, z + 1) = air,
        get_block(block_data, x - 1, y, z) = air,
        get_block(block_data, x, y - 1, z) = air,
        get_block(block_data, x, y, z - 1) = air,
        TRUE)

block_occlusion_swapped(block_data, x, y, z) ==
    set_occlusion(
        get_block(block_data, x - 1, y, z) /= air,
        get_block(block_data, x, y - 1, z) /= air,
        get_block(block_data, x, y, z - 1) /= air,
        get_block(block_data, x + 1, y, z) /= air,
        get_block(block_data, x, y + 1, z) /= air,
        get_block(block_data, x, y, z + 1) /= air,
        TRUE)

\* The occlusion context mesh_chunk sets for the block at (x, y, z).
block_occlusion(block_data, x, y, z) ==
    set_occlusion(
        get_block(block_data, x + 1, y, z) /= air,
        get_block(block_data, x, y + 1, z) /= air,
        get_block(block_data, x, y, z + 1) /= air,
        get_block(block_data, x - 1, y, z) /= air,
        get_block(block_data, x, y - 1, z) /= air,
        get_block(block_data, x, y, z - 1) /= air,
        TRUE)

\* The indices get_block is called with for the six neighbours of (x, y, z).
occlusion_reads(x, y, z) ==
    {get_block_index(x + d[1], y + d[2], z + d[3]) : d \in Dirs}

\* The body of the innermost loop of mesh_chunk for one coordinate. `st`
\* holds the vertex buffer, the bakery context, the bakery calls made so
\* far, each call [pos, block, context], and the indices read so far.
mesh_chunk_block(st, chunk, block_data, x, y, z) ==
    LET block == get_block(block_data, x, y, z)
        context == block_occlusion(block_data, x, y, z)
        c == to_block_coord_tuple(chunk.pos)
        offset == <<F32(x + c[1]), F32(y + c[2]), F32(z + c[3])>>
    IN  IF block = air
        THEN [st EXCEPT !.reads = @ \cup {get_block_index(x, y, z)}]
        ELSE [vertices |-> push_faces(st.vertices, render_block(context, block),
                                      1, offset),
              context |-> context,
              calls |-> Append(st.calls, [pos |-> <<x, y, z>>, block |-> block,
                                          context |-> context]),
              reads |-> st.reads \cup {get_block_index(x, y, z)}
                                \cup occlusion_reads(x, y, z)]

RECURSIVE mesh_chunk_loop(_, _, _, _)
mesh_chunk_loop(st, chunk, block_data, i) ==
    IF i >= LoopEnd
    THEN st
    ELSE mesh_chunk_loop(
            mesh_chunk_block(st, chunk, block_data, LoopX(i), LoopY(i), LoopZ(i)),
            chunk, block_data, i + 1)

mesh_chunk_vertices_no_reset(m, chunk, block_data) ==
    mesh_chunk_loop(
        [vertices |-> m.vertices, context |-> BakeryContext_new, calls |-> <<>>,
         reads |-> {}],
        chunk, block_data, 0)

\* mesh_chunk up to its call of upload, from the thread state m: the vertex
\* buffer and the bakery calls.
mesh_chunk_vertices(m, chunk, block_data) ==
    mesh_chunk_loop(
        [vertices |-> reset(m).vertices, context |-> BakeryContext_new, calls |-> <<>>,
         reads |-> {}],
        chunk, block_data, 0)

\* upload of chunk_mesher.rs.
upload_qindex_raw_count(chunk, mesh_data, bufs, arrs) ==
    IF Len(mesh_data) = 0
    THEN [state |-> Empty, buffers |-> bufs, arrays |-> arrs, gen |-> 0]
    ELSE LET vbo == GenName(BufferNames(bufs))
             vao == GenName(ArrayNames(arrs))
         IN  [state |-> Meshed(vao, vbo, Len(mesh_data)),
              buffers |-> bufs \cup {[id |-> vbo, len |-> Len(mesh_data)]},
              arrays |-> arrs \cup {[id |-> vao, vbo |-> vbo]},
              gen |-> 2]

\* upload of chunk_mesher.rs with the driver's two answers as inputs.
upload_qindex_driver(chunk, mesh_data, bufs, arrs, vbo_ok, vao_ok) ==
    IF Len(mesh_data) = 0
    THEN [state |-> Empty, buffers |-> bufs, arrays |-> arrs, gen |-> 0]
    ELSE LET vertex_count == (Len(mesh_data) \div 4) * 6
             vbo == GenOrZero(vbo_ok, BufferNames(bufs))
             vao == GenOrZero(vao_ok, ArrayNames(arrs))
         IN  [state |-> Meshed(vao, vbo, vertex_count),
              buffers |-> IF vbo = 0
                          THEN bufs
                          ELSE bufs \cup {[id |-> vbo, len |-> Len(mesh_data)]},
              arrays |-> IF vao = 0
                         THEN arrs
                         ELSE arrs \cup {[id |-> vao, vbo |-> vbo]},
              gen |-> 2]

upload_qindex(chunk, mesh_data, bufs, arrs) ==
    upload_qindex_driver(chunk, mesh_data, bufs, arrs, TRUE, TRUE)

\* A GL call as the log of a step holds it.
GlCall(op, arg) ==
    [op |-> op, arg |-> arg]

\* The calls by which upload created the objects of the state it returned.
upload_calls(r) ==
    IF r.gen = 0
    THEN <<>>
    ELSE <<GlCall("GenBuffers", r.state.vbo), GlCall("GenVertexArrays", r.state.vao)>>

\* ChunkMesh::draw: BindVertexArray(descriptor), then the draw call with the
\* stored count (DrawElements; DrawArrays in the non-indexed variant).
ChunkMesh_draw(st, indexed) ==
    <<GlCall("BindVertexArray", st.vao),
      GlCall(IF indexed THEN "DrawElements" ELSE "DrawArrays", st.count)>>

ChunkMesh_drop_twice(st) ==
    IF st.tag = "Meshed"
    THEN <<GlCall("DeleteBuffers", st.vbo), GlCall("DeleteVertexArrays", st.vao),
           GlCall("DeleteBuffers", st.vbo)>>
    ELSE <<>>

\* Drop for ChunkMesh: DeleteBuffers, then DeleteVertexArrays; Empty and the
\* states without a mesh hold nothing to drop.
ChunkMesh_drop(st) ==
    IF st.tag = "Meshed"
    THEN <<GlCall("DeleteBuffers", st.vbo), GlCall("DeleteVertexArrays", st.vao)>>
    ELSE <<>>

\* The GL objects left by the drop of st: glDeleteBuffers and
\* glDeleteVertexArrays remove the named object and ignore unused names.
DropBuffers(st, bufs) ==
    LET calls == ChunkMesh_drop(st)
    IN  {b \in bufs : \A k \in 1 .. Len(calls) : calls[k] /= GlCall("DeleteBuffers", b.id)}

DropArrays(st, arrs) ==
    LET calls == ChunkMesh_drop(st)
    IN  {a \in arrs :
            \A k \in 1 .. Len(calls) : calls[k] /= GlCall("DeleteVertexArrays", a.id)}

\* ------------------------------------------------------------ the world
\* The block the camera targets: the last block along +x of the chunk at
\* `o`, and the seven positions an edit can reach around it.
Focus(o) ==
    Add3(to_block_coord_tuple(o), <<CHUNK_SIZE - 1, 0, 0>>)

PlusCells(o) ==
    {Focus(o)} \cup {Add3(Focus(o), d) : d \in Dirs}

\* The chunks that hold those positions.
ChunkPositions(o) ==
    {ChunkOf(b) : b \in PlusCells(o)}

\* The chunks the renderer meshes.
Meshable(o) ==
    {o, Add3(o, PX)}

\* The neighbour of chunk c along x among the meshed chunks.
XNeighbour(c) ==
    IF c = origin THEN Add3(origin, PX) ELSE origin

\* The neighbourhoods a pass over chunk c is given: every other chunk, or
\* every other chunk but the neighbour along x.
Neighbourhoods(c) ==
    LET full == DOMAIN chunks \ {c}
    IN  {full, full \ {XNeighbour(c)}}

World(o, solid) ==
    [p \in ChunkPositions(o) |->
        [pos |-> p,
         blocks |-> [l \in Locals |->
            IF Add3(to_block_coord_tuple(p), l) \in solid THEN adm ELSE air]]]

Origins ==
    {<<0, 0, 0>>, <<FarChunk, 0, 0>>}

\* The record of a pass: the chunk and neighbourhood it was given, the
\* vertex list handed to upload, the bakery calls, the block-data indices
\* read, the number of GL objects generated, the outcome and its vertex count; `again` when the pass before
\* it had the same chunk and neighbourhood, `stale` when the scratch buffer
\* still held the vertices of another chunk as the pass began.
\* The two workers of the concurrent scenario, and a worker outside a call.
Workers ==
    {1, 2}

Idle ==
    [pc |-> "idle", chunk |-> <<0, 0, 0>>, nb |-> {}, i |-> 0, result |-> <<>>]

NoPass ==
    [done |-> FALSE, chunk |-> <<0, 0, 0>>, nb |-> {}, vertices |-> <<>>,
     calls |-> <<>>, reads |-> {}, gen |-> 0, tag |-> "Unallocated", count |-> 0,
     again |-> FALSE, stale |-> FALSE]

Init ==
    /\ variant \in {"mesh", "mesh_chunk"}
    /\ origin \in Origins
    /\ \E solid \in SUBSET PlusCells(origin) : chunks = World(origin, solid)
    /\ mesher = MesherThreadState_new
    /\ mesh_state = Unallocated
    /\ glBuffers = {}
    /\ glArrays = {}
    /\ pass = NoPass
    /\ src = <<>>
    /\ dst = <<>>
    /\ gl_calls = <<>>
    /\ threads = [w \in Workers |-> Idle]
    /\ states = [w \in Workers |-> MesherThreadState_new]

\* The end of a pass of the non-indexed mesher over chunk c, which handed
\* `vertices` to upload and got r: the result replaces the state the renderer
\* held, whose mesh is dropped.
MeshUploaded(c, vertices, r) ==
    /\ variant = "mesh"
    /\ mesh_state' = r.state
    /\ glBuffers' = DropBuffers(mesh_state, r.buffers)
    /\ glArrays' = DropArrays(mesh_state, r.arrays)
    /\ pass' = [done |-> TRUE, chunk |-> c, nb |-> {}, vertices |-> vertices,
                calls |-> <<>>, reads |-> {}, gen |-> r.gen, tag |-> r.state.tag,
                count |-> r.state.count,
                again |-> pass.done /\ pass.chunk = c,
                stale |-> FALSE]
    /\ gl_calls' = upload_calls(r) \o ChunkMesh_drop(mesh_state)
    /\ UNCHANGED <<variant, origin, chunks, mesher, src, dst, threads, states>>

\* A pass of the non-indexed mesher over chunk c.
Mesh(c) ==
    LET vertices == mesh_vertices(chunks[c])
    IN  MeshUploaded(c, vertices, upload(chunks[c], vertices, glBuffers, glArrays))

\* The same pass on a driver that may create no buffer, no vertex array.
MeshDriver(c, vbo_ok, vao_ok) ==
    LET vertices == mesh_vertices(chunks[c])
    IN  MeshUploaded(c, vertices,
            upload_driver(chunks[c], vertices, glBuffers, glArrays, vbo_ok, vao_ok))

\* The end of a pass of the indexed mesher over chunk c with the
\* neighbourhood nb, whose traversal gave `out` and whose upload gave r.
MeshChunkUploaded(c, nb, out, r) ==
    /\ variant = "mesh_chunk"
    /\ mesher' = [reset(mesher) EXCEPT !.vertices = out.vertices]
    /\ mesh_state' = r.state
    /\ glBuffers' = DropBuffers(mesh_state, r.buffers)
    /\ glArrays' = DropArrays(mesh_state, r.arrays)
    /\ pass' = [done |-> TRUE, chunk |-> c, nb |-> nb,
                vertices |-> out.vertices, calls |-> out.calls,
                reads |-> out.reads, gen |-> r.gen, tag |-> r.state.tag,
                count |-> r.state.count,
                again |-> pass.done /\ pass.chunk = c /\ pass.nb = nb,
                stale |-> pass.chunk /= c /\ Len(mesher.vertices) > 0]
    /\ gl_calls' = upload_calls(r) \o ChunkMesh_drop(mesh_state)
    /\ UNCHANGED <<variant, origin, chunks, src, dst, threads, states>>

\* A pass of the indexed mesher over chunk c with the neighbourhood nb (chunk
\* positions), on the worker's thread state.
MeshChunk(c, nb) ==
    LET block_data == ChunkWithEdge(chunks[c], {chunks[p] : p \in nb})
        out == mesh_chunk_vertices(mesher, chunks[c], block_data)
    IN  MeshChunkUploaded(c, nb, out,
            upload_qindex(chunks[c], out.vertices, glBuffers, glArrays))

MeshChunkDriver(c, nb, vbo_ok, vao_ok) ==
    LET block_data == ChunkWithEdge(chunks[c], {chunks[p] : p \in nb})
        out == mesh_chunk_vertices(mesher, chunks[c], block_data)
    IN  MeshChunkUploaded(c, nb, out,
            upload_qindex_driver(chunks[c], out.vertices, glBuffers, glArrays,
                                 vbo_ok, vao_ok))

\* The renderer lets the mesh it holds go out of scope.
DropMesh ==
    /\ mesh_state.tag = "Meshed"
    /\ mesh_state' = Released
    /\ glBuffers' = DropBuffers(mesh_state, glBuffers)
    /\ glArrays' = DropArrays(mesh_state, glArrays)
    /\ gl_calls' = ChunkMesh_drop(mesh_state)
    /\ UNCHANGED <<variant, origin, chunks, mesher, pass, src, dst, threads, states>>

\* The renderer draws the mesh it holds.
Draw ==
    /\ mesh_state.tag = "Meshed"
    /\ gl_calls' = ChunkMesh_draw(mesh_state, variant = "mesh_chunk")
    /\ UNCHANGED <<variant, origin, chunks, mesher, mesh_state, glBuffers, glArrays,
                   pass, src, dst, threads, states>>

Next ==
    \/ \E c \in Meshable(origin) : Mesh(c)
    \/ \E c \in Meshable(origin) : \E nb \in Neighbourhoods(c) : MeshChunk(c, nb)
    \/ DropMesh
    \/ Draw

Spec ==
    Init /\ [][Next]_vars

\* ------------------------------------- a driver that may create nothing
\* The world at the origin with the edge block of chunk A and its neighbour
\* in chunk B each present or absent.
InitDriver ==
    /\ Init
    /\ origin = <<0, 0, 0>>
    /\ \E solid \in SUBSET {Focus(origin), Add3(Focus(origin), PX)} :
            chunks = World(origin, solid)

NextDriver ==
    \/ \E c \in Meshable(origin) : \E vbo_ok, vao_ok \in BOOLEAN :
            MeshDriver(c, vbo_ok, vao_ok)
    \/ \E c \in Meshable(origin) : \E nb \in Neighbourhoods(c) :
            \E vbo_ok, vao_ok \in BOOLEAN : MeshChunkDriver(c, nb, vbo_ok, vao_ok)
    \/ DropMesh
    \/ Draw

SpecDriver ==
    InitDriver /\ [][NextDriver]_vars

\* ------------------------------------------- quad_to_tris on its own
\* The quads handed to quad_to_tris: the six faces of a block.
Quads ==
    {FaceQuad(d, BlockUv_new_from_pos(0, 0)) : d \in Dirs}

InitQuad ==
    /\ variant = "mesh"
    /\ origin = <<0, 0, 0>>
    /\ chunks = World(origin, {})
    /\ mesher = MesherThreadState_new
    /\ mesh_state = Unallocated
    /\ glBuffers = {}
    /\ glArrays = {}
    /\ pass = NoPass
    /\ src = <<>>
    /\ dst = <<>>
    /\ gl_calls = <<>>
    /\ threads = [w \in Workers |-> Idle]
    /\ states = [w \in Workers |-> MesherThreadState_new]

QuadToTris(quad) ==
    /\ Len(dst) < 6 * MaxQuads
    /\ src' = quad
    /\ dst' = quad_to_tris(quad, dst)
    /\ UNCHANGED <<variant, origin, chunks, mesher, mesh_state, glBuffers,
                   glArrays, pass, gl_calls, threads, states>>

NextQuad ==
    \E quad \in Quads : QuadToTris(quad)

SpecQuad ==
    InitQuad /\ [][NextQuad]_vars

\* --------------------------------------- chunks of every content, indexed
\* The eight cells at the +x end of the first two layers of chunk o, and the
\* first cell of the chunk beyond the +x edge.
OrderCells(o) ==
    {Add3(to_block_coord_tuple(o), <<x, y, z>>) :
        x \in {CHUNK_SIZE - 2, CHUNK_SIZE - 1}, y \in {0, 1}, z \in {0, 1}}
    \cup {Add3(Focus(o), PX)}

InitOrder ==
    /\ variant = "mesh_chunk"
    /\ origin = <<0, 0, 0>>
    /\ \E solid \in SUBSET OrderCells(origin) : chunks = World(origin, solid)
    /\ mesher = MesherThreadState_new
    /\ mesh_state = Unallocated
    /\ glBuffers = {}
    /\ glArrays = {}
    /\ pass = NoPass
    /\ src = <<>>
    /\ dst = <<>>
    /\ gl_calls = <<>>
    /\ threads = [w \in Workers |-> Idle]
    /\ states = [w \in Workers |-> MesherThreadState_new]

NextOrder ==
    \E c \in Meshable(origin) : \E nb \in Neighbourhoods(c) : MeshChunk(c, nb)

SpecOrder ==
    InitOrder /\ [][NextOrder]_vars

\* ------------------------------------------------- two concurrent workers
\* The MesherThreadState worker w hands to mesh_chunk: its own.
mesher_of_shared(w) ==
    1

mesher_of(w) ==
    w

\* Worker w enters mesh_chunk for chunk c with the neighbourhood nb: the
\* thread state is reset, the traversal stands before its first coordinate.
WorkerBegin(w, c, nb) ==
    /\ threads[w].pc = "idle"
    /\ states' = [states EXCEPT ![mesher_of(w)] = reset(@)]
    /\ threads' = [threads EXCEPT ![w] =
            [pc |-> "loop", chunk |-> c, nb |-> nb, i |-> 0, result |-> <<>>]]
    /\ UNCHANGED <<variant, origin, chunks, mesher, mesh_state, glBuffers, glArrays,
                   pass, src, dst, gl_calls>>

\* Worker w runs the loop body for its next coordinate.
WorkerStep(w) ==
    /\ threads[w].pc = "loop"
    /\ threads[w].i < LoopEnd
    /\ LET t == threads[w]
           chunk == chunks[t.chunk]
           block_data == ChunkWithEdge(chunk, {chunks[p] : p \in t.nb})
           st == mesh_chunk_block(
                    [vertices |-> states[mesher_of(w)].vertices,
                     context |-> BakeryContext_new, calls |-> <<>>, reads |-> {}],
                    chunk, block_data, LoopX(t.i), LoopY(t.i), LoopZ(t.i))
       IN  /\ states' = [states EXCEPT ![mesher_of(w)].vertices = st.vertices]
           /\ threads' = [threads EXCEPT ![w].i = @ + 1]
    /\ UNCHANGED <<variant, origin, chunks, mesher, mesh_state, glBuffers, glArrays,
                   pass, src, dst, gl_calls>>

\* Worker w leaves the loop and uploads the vertex buffer; the result
\* replaces the state the renderer held.
WorkerEnd(w) ==
    /\ threads[w].pc = "loop"
    /\ threads[w].i = LoopEnd
    /\ LET vertices == states[mesher_of(w)].vertices
           r == upload_qindex(chunks[threads[w].chunk], vertices, glBuffers, glArrays)
       IN  /\ threads' = [threads EXCEPT ![w].pc = "idle", ![w].result = vertices]
           /\ mesh_state' = r.state
           /\ glBuffers' = DropBuffers(mesh_state, r.buffers)
           /\ glArrays' = DropArrays(mesh_state, r.arrays)
           /\ gl_calls' = upload_calls(r) \o ChunkMesh_drop(mesh_state)
    /\ UNCHANGED <<variant, origin, chunks, mesher, pass, src, dst, states>>

\* The indexed mesher at the origin; the edge block of chunk A and its
\* neighbour in chunk B each present or absent.
InitWorkers ==
    /\ Init
    /\ variant = "mesh_chunk"
    /\ origin = <<0, 0, 0>>
    /\ \E solid \in SUBSET {Focus(origin), Add3(Focus(origin), PX)} :
            chunks = World(origin, solid)

NextWorkers ==
    \/ \E w \in Workers : \E c \in Meshable(origin) :
            WorkerBegin(w, c, DOMAIN chunks \ {c})
    \/ \E w \in Workers : WorkerStep(w)
    \/ \E w \in Workers : WorkerEnd(w)

SpecWorkers ==
    InitWorkers /\ [][NextWorkers]_vars

\* =================================================================== claims
\* The chunk of the last pass, and the block data an indexed pass was given.
PassChunk ==
    chunks[pass.chunk]

PassData ==
    ChunkWithEdge(PassChunk, {chunks[p] : p \in pass.nb})

AllAir(chunk) ==
    \A l \in Locals : chunk.blocks[l] = air

SolidLocals(chunk) ==
    {l \in Locals : chunk.blocks[l] /= air}

\* The block of the world at an absolute block coordinate; air where no chunk
\* is loaded.
WorldBlock(b) ==
    IF ChunkOf(b) \in DOMAIN chunks THEN chunks[ChunkOf(b)].blocks[LocalOf(b)] ELSE air

\* Absolute coordinate of the block at local l of the chunk of the last pass.
PassAbs(l) ==
    Add3(to_block_coord_tuple(pass.chunk), l)

\* C1: a pass over a chunk whose cells are all air returns Empty and creates
\* no GL buffer and no GL vertex array; no GL object exists after it.
C1_AllAirIsEmpty ==
    (pass.done /\ AllAir(PassChunk)) =>
        /\ pass.tag = "Empty"
        /\ pass.gen = 0
        /\ Len(pass.vertices) = 0
        /\ mesh_state = Empty
        /\ glBuffers = {} /\ glArrays = {}

\* An all-air chunk was meshed by the indexed mesher next to a neighbour that
\* holds a block.
C1_Witness ==
    /\ pass.done /\ variant = "mesh_chunk"
    /\ AllAir(PassChunk)
    /\ \E p \in pass.nb : ~AllAir(chunks[p])

\* ------------------------------------------------ reading a pass's output
FocusLocal ==
    <<CHUNK_SIZE - 1, 0, 0>>

\* The vertex list cut into groups of n vertices.
Groups(vs, n) ==
    {SubSeq(vs, n * (k - 1) + 1, n * k) : k \in 1 .. (Len(vs) \div n)}

\* The quad of face d of the block at local l of the pass's chunk, at its
\* exact absolute position, and the two triangles a,b,d and b,c,d of a quad.
ExactQuad(l, d) ==
    LET q == FaceQuad(d, BlockUv_new_from_pos((PassChunk.blocks[l] % 256) - 1, 0))
        b == PassAbs(l)
    IN  [k \in 1 .. 4 |->
            [q[k] EXCEPT !.x = @ + b[1], !.y = @ + b[2], !.z = @ + b[3]]]

Tris(q) ==
    <<q[1], q[2], q[4], q[2], q[3], q[4]>>

\* The non-indexed output holds face d of the block at l.
MeshHasFace(l, d) ==
    Tris(ExactQuad(l, d)) \in Groups(pass.vertices, 6)

\* The bakery calls an indexed pass made for the block at l.
CallsAt(l) ==
    {k \in 1 .. Len(pass.calls) : pass.calls[k].pos = l}

DirIndex(d) ==
    CHOOSE k \in 1 .. 6 : ContextDirs[k] = d

\* An indexed pass handed the bakery, for the block at l, an occlusion flag
\* `flag` for direction d.
CallFlag(l, d, flag) ==
    /\ CallsAt(l) /= {}
    /\ \A k \in CallsAt(l) : pass.calls[k].context.occlusion[DirIndex(d)] = flag

\* The number of faces the bakery was asked to draw in an indexed pass.
RECURSIVE DrawnFaces(_)
DrawnFaces(k) ==
    IF k = 0
    THEN 0
    ELSE DrawnFaces(k - 1)
         + Cardinality({i \in 1 .. 6 : ~pass.calls[k].context.occlusion[i]})

\* C2 (indexed half): with chunk B in the neighbourhood the +x flag of the
\* edge block is set, without it the flag is clear.
CrossChunkOcclusionIndexed ==
    (/\ pass.done /\ variant = "mesh_chunk" /\ pass.chunk = origin
     /\ WorldBlock(Focus(origin)) /= air
     /\ WorldBlock(Add3(Focus(origin), PX)) /= air) =>
        CallFlag(FocusLocal, PX, Add3(origin, PX) \in pass.nb)

\* C2: a non-air block at the +x edge of chunk A whose +x neighbour, local
\* (0,y,z) of the loaded chunk B, is non-air gets no +x face when A is meshed.
C2_CrossChunkOcclusion ==
    /\ CrossChunkOcclusionIndexed
    /\ (/\ pass.done /\ variant = "mesh" /\ pass.chunk = origin
        /\ WorldBlock(Focus(origin)) /= air
        /\ WorldBlock(Add3(Focus(origin), PX)) /= air) =>
           ~MeshHasFace(FocusLocal, PX)

\* C3: a chunk with exactly one non-air block whose six neighbours are air
\* yields exactly six faces: 36 vertices, the two triangles of each face, in
\* the non-indexed variant; 24 vertices from one bakery call with no face
\* occluded in the indexed variant.
C3_SingleBlockSixFaces ==
    (/\ pass.done
     /\ Cardinality(SolidLocals(PassChunk)) = 1
     /\ \A l \in SolidLocals(PassChunk) : \A d \in Dirs :
            IF variant = "mesh"
            THEN WorldBlock(Add3(PassAbs(l), d)) = air
            ELSE get_block(PassData, l[1] + d[1], l[2] + d[2], l[3] + d[3]) = air) =>
        IF variant = "mesh"
        THEN /\ Len(pass.vertices) = 36
             /\ \A l \in SolidLocals(PassChunk) : \A d \in Dirs : MeshHasFace(l, d)
             /\ pass.tag = "Meshed" /\ pass.count = 36
        ELSE /\ Len(pass.vertices) = 24
             /\ Len(pass.calls) = 1
             /\ \A l \in SolidLocals(PassChunk) : \A d \in Dirs : CallFlag(l, d, FALSE)
             /\ pass.tag = "Meshed" /\ pass.count = 36

\* The indexed mesher meshed a chunk whose only block stands alone.
C3_Witness ==
    /\ pass.done /\ variant = "mesh_chunk"
    /\ SolidLocals(PassChunk) = {FocusLocal}
    /\ \A d \in Dirs : WorldBlock(Add3(PassAbs(FocusLocal), d)) = air
    /\ Len(pass.vertices) = 24

\* C4 (indexed half): a block whose six neighbours in the block data are
\* non-air is handed to the bakery with all six flags set.
FullOcclusionIndexed ==
    (pass.done /\ variant = "mesh_chunk") =>
        \A l \in SolidLocals(PassChunk) :
            (\A d \in Dirs :
                get_block(PassData, l[1] + d[1], l[2] + d[2], l[3] + d[3]) /= air)
            => \A d \in Dirs : CallFlag(l, d, TRUE)

\* C4: a non-air block whose six axis neighbours are all non-air gets no
\* face.
C4_FullOcclusion ==
    /\ FullOcclusionIndexed
    /\ (pass.done /\ variant = "mesh") =>
        \A l \in SolidLocals(PassChunk) :
            (\A d \in Dirs : WorldBlock(Add3(PassAbs(l), d)) /= air)
            => \A d \in Dirs : ~MeshHasFace(l, d)

\* The quad of face d of the block at l as an indexed pass holds it when the
\* translation is exact: four vertices with ao = 0.
ExactQuadIndexed(l, d) ==
    LET q == ExactQuad(l, d)
        W(v) == [x |-> v.x, y |-> v.y, z |-> v.z, u |-> v.u, v |-> v.v, ao |-> 0]
    IN  <<W(q[1]), W(q[2]), W(q[3]), W(q[4])>>

\* C5: every vertex of the output is its unit-cube vertex plus exactly the
\* absolute coordinate of the block that produced it: every face of the
\* output is a face of a non-air block of the chunk at its exact position.
C5_ExactTranslation ==
    pass.done =>
        IF variant = "mesh"
        THEN \A g \in Groups(pass.vertices, 6) :
                \E l \in SolidLocals(PassChunk) : \E d \in Dirs :
                    g = Tris(ExactQuad(l, d))
        ELSE \A g \in Groups(pass.vertices, 4) :
                \E l \in SolidLocals(PassChunk) : \E d \in Dirs :
                    g = ExactQuadIndexed(l, d)

\* C5 (the example): for the block at local (0,0,0) of chunk (1,0,0) every
\* vertex x lies in [CHUNK_SIZE, CHUNK_SIZE + 1).
HalfOpenInterval ==
    (/\ pass.done /\ pass.chunk = <<1, 0, 0>>
     /\ SolidLocals(PassChunk) = {<<0, 0, 0>>}) =>
        \A i \in 1 .. Len(pass.vertices) :
            CHUNK_SIZE <= pass.vertices[i].x /\ pass.vertices[i].x < CHUNK_SIZE + 1

\* C5 (the example, closed): the same vertices lie in
\* [CHUNK_SIZE, CHUNK_SIZE + 1].
ClosedInterval ==
    (/\ pass.done /\ pass.chunk = <<1, 0, 0>>
     /\ SolidLocals(PassChunk) = {<<0, 0, 0>>}) =>
        \A i \in 1 .. Len(pass.vertices) :
            CHUNK_SIZE <= pass.vertices[i].x /\ pass.vertices[i].x <= CHUNK_SIZE + 1

\* C6: quad_to_tris appends to the destination exactly the six vertices
\* a, b, d, b, c, d of the quad [a, b, c, d] and leaves what the destination
\* held unchanged.
C6_QuadToTris ==
    [][/\ Len(dst') = Len(dst) + 6
       /\ SubSeq(dst', 1, Len(dst)) = dst
       /\ SubSeq(dst', Len(dst) + 1, Len(dst) + 6)
            = <<src'[1], src'[2], src'[4], src'[2], src'[3], src'[4]>>]_vars

\* A quad was expanded onto a destination that already held two quads.
C6_Witness ==
    /\ src \in Quads
    /\ Len(dst) = 18
    /\ SubSeq(dst, 13, 18) /= SubSeq(dst, 1, 6)

\* C7: a pass given the chunk and neighbourhood of the pass before it yields
\* the same vertex list, the same outcome and the same vertex count.
C7_Idempotent ==
    [][(/\ pass.done /\ pass'.done
        /\ pass'.chunk = pass.chunk /\ pass'.nb = pass.nb) =>
           /\ pass'.vertices = pass.vertices
           /\ pass'.tag = pass.tag
           /\ pass'.count = pass.count]_vars

\* The indexed mesher meshed a non-empty chunk twice in a row on one thread
\* state, and the second mesh got other GL names than the first.
C7_Witness ==
    /\ variant = "mesh_chunk"
    /\ pass.again
    /\ pass.tag = "Meshed"
    /\ mesh_state.tag = "Meshed" /\ mesh_state.vbo = 2

\* C8: the vertex buffer an indexed pass hands to upload is the one a fresh
\* thread state yields for the chunk of the pass, whatever the passes before
\* it left in the scratch buffers; an all-air chunk yields Empty.
C8_ScratchCleared ==
    (pass.done /\ variant = "mesh_chunk") =>
        /\ pass.vertices
             = mesh_chunk_vertices(MesherThreadState_new, PassChunk, PassData).vertices
        /\ mesher.vertices = pass.vertices
        /\ mesher.quad_buf = <<>>
        /\ AllAir(PassChunk) => (pass.tag = "Empty" /\ Len(pass.vertices) = 0)

\* An all-air chunk was meshed while the scratch buffer held the vertices of
\* another chunk.
C8_Witness ==
    /\ variant = "mesh_chunk"
    /\ pass.done /\ pass.stale
    /\ AllAir(PassChunk)
    /\ pass.tag = "Empty"

\* The size of the GL buffer of the mesh the renderer holds.
UploadedLen ==
    LET b == CHOOSE b \in glBuffers : b.id = mesh_state.vbo
    IN  b.len

\* C9 as stated: every pass ends Empty with no GL object generated, or with
\* a multiple of 6 vertices uploaded.
C9_MultipleOfSix ==
    pass.done =>
        \/ pass.tag = "Empty" /\ pass.gen = 0
        \/ pass.tag = "Meshed" /\ Len(pass.vertices) % 6 = 0

\* C9 as amended: every pass ends Empty with no GL object generated, or
\* uploads a multiple of 6 vertices in the non-indexed variant and a multiple
\* of 4 vertices in the indexed variant, whose count handed to the draw call,
\* len / 4 * 6, is a multiple of 6.
C9_MultipleOfSixOrFour ==
    pass.done =>
        \/ pass.tag = "Empty" /\ pass.gen = 0 /\ glBuffers = {} /\ glArrays = {}
        \/ /\ pass.tag = "Meshed" /\ pass.gen = 2
           /\ mesh_state.tag = "Meshed" => UploadedLen = Len(pass.vertices)
           /\ IF variant = "mesh"
              THEN Len(pass.vertices) % 6 = 0 /\ pass.count = Len(pass.vertices)
              ELSE /\ Len(pass.vertices) % 4 = 0
                   /\ pass.count = (Len(pass.vertices) \div 4) * 6
                   /\ pass.count % 6 = 0

\* The indexed mesher uploaded a number of vertices that is no multiple of 6.
C9_Witness ==
    /\ variant = "mesh_chunk"
    /\ pass.tag = "Meshed" /\ mesh_state.tag = "Meshed"
    /\ UploadedLen % 6 /= 0

\* C10: a neighbour position outside the chunk for which the pass has no
\* chunk data counts as air: the face towards it is drawn, and the pass ends
\* with an outcome.
C10_UnresolvedIsAir ==
    pass.done =>
        /\ pass.tag \in {"Empty", "Meshed"}
        /\ \A l \in SolidLocals(PassChunk) : \A d \in Dirs :
            IF variant = "mesh"
            THEN ~InChunk(l[1] + d[1], l[2] + d[2], l[3] + d[3])
                    => MeshHasFace(l, d)
            ELSE (/\ ~InChunk(l[1] + d[1], l[2] + d[2], l[3] + d[3])
                  /\ ChunkOf(Add3(PassAbs(l), d)) \notin pass.nb)
                    => CallFlag(l, d, FALSE)
        /\ variant = "mesh_chunk" =>
              Len(pass.vertices) = 4 * DrawnFaces(Len(pass.calls))

\* The indexed mesher meshed chunk A without chunk B in the neighbourhood
\* while B holds a block next to A's edge block, and drew the face.
C10_Witness ==
    /\ variant = "mesh_chunk"
    /\ pass.done /\ pass.chunk = origin
    /\ Add3(origin, PX) \notin pass.nb
    /\ WorldBlock(Focus(origin)) /= air
    /\ WorldBlock(Add3(Focus(origin), PX)) /= air
    /\ CallFlag(FocusLocal, PX, FALSE)

\* ------------------------------------------------------- the mesh handle
\* How often the log `calls` holds the GL call op(arg), and the calls of the
\* log with one of the operations ops.
CountCalls(calls, op, arg) ==
    Cardinality({k \in 1 .. Len(calls) : calls[k] = GlCall(op, arg)})

CallsOf(calls, ops) ==
    {calls[k] : k \in {j \in 1 .. Len(calls) : calls[j].op \in ops}}

DeleteOps == {"DeleteBuffers", "DeleteVertexArrays"}
DrawOps == {"BindVertexArray", "DrawElements", "DrawArrays"}

\* The live GL objects are those of the mesh the renderer holds.
LiveIsHeld(st, bufs, arrs) ==
    IF st.tag = "Meshed"
    THEN BufferNames(bufs) = {st.vbo} /\ ArrayNames(arrs) = {st.vao}
    ELSE bufs = {} /\ arrs = {}

\* C11: a handle goes Unallocated -> Meshed -> Released. Its GL objects are
\* generated when it becomes Meshed and stay live, untouched by any delete,
\* while it is held; the step that drops it deletes its buffer exactly once
\* and its vertex array exactly once and nothing else; no step deletes
\* anything when no mesh is held; a draw only ever binds the live vertex
\* array of the held mesh, so never after the release.
C11_HandleLifecycle ==
    [][/\ mesh_state'.tag = "Released" => mesh_state.tag = "Meshed"
       /\ mesh_state'.tag = "Unallocated" => mesh_state.tag = "Unallocated"
       /\ (mesh_state'.tag = "Meshed" /\ mesh_state' /= mesh_state) =>
             /\ mesh_state'.vbo \notin BufferNames(glBuffers)
             /\ mesh_state'.vao \notin ArrayNames(glArrays)
             /\ CountCalls(gl_calls', "GenBuffers", mesh_state'.vbo) = 1
             /\ CountCalls(gl_calls', "GenVertexArrays", mesh_state'.vao) = 1
       /\ (mesh_state.tag = "Meshed" /\ mesh_state' /= mesh_state) =>
             /\ CountCalls(gl_calls', "DeleteBuffers", mesh_state.vbo) = 1
             /\ CountCalls(gl_calls', "DeleteVertexArrays", mesh_state.vao) = 1
             /\ Cardinality(CallsOf(gl_calls', DeleteOps)) = 2
             /\ mesh_state.vbo \notin BufferNames(glBuffers')
             /\ mesh_state.vao \notin ArrayNames(glArrays')
       /\ (mesh_state.tag /= "Meshed" \/ mesh_state' = mesh_state) =>
             CallsOf(gl_calls', DeleteOps) = {}
       /\ CallsOf(gl_calls', DrawOps) /= {} =>
             /\ mesh_state.tag = "Meshed" /\ mesh_state' = mesh_state
             /\ mesh_state.vao \in ArrayNames(glArrays')
             /\ mesh_state.vbo \in BufferNames(glBuffers')
             /\ CountCalls(gl_calls', "BindVertexArray", mesh_state.vao) = 1
       /\ LiveIsHeld(mesh_state', glBuffers', glArrays')]_vars

\* A mesh was drawn or replaced before, and the mesh the renderer then held
\* has just been dropped: both its objects deleted, none left.
C11_Witness ==
    /\ mesh_state = Released
    /\ pass.tag = "Meshed" /\ pass.again
    /\ gl_calls = <<GlCall("DeleteBuffers", 2), GlCall("DeleteVertexArrays", 2)>>
    /\ glBuffers = {} /\ glArrays = {}

\* The draw calls proper of a log.
DrawCalls(calls) ==
    CallsOf(calls, {"DrawElements", "DrawArrays"})

\* C12: the count a Meshed handle stores is len(vertices) / 4 * 6 in the
\* indexed variant, where len(vertices) is a multiple of 4 so that the count
\* is six for every four vertices, and len(vertices) in the non-indexed
\* variant; the draw call is handed the stored count.
C12_VertexCount ==
    /\ (pass.done /\ pass.tag = "Meshed") =>
          IF variant = "mesh_chunk"
          THEN /\ Len(pass.vertices) % 4 = 0
               /\ pass.count = (Len(pass.vertices) \div 4) * 6
               /\ 4 * pass.count = 6 * Len(pass.vertices)
          ELSE pass.count = Len(pass.vertices)
    /\ mesh_state.tag = "Meshed" => mesh_state.count = pass.count
    /\ \A call \in DrawCalls(gl_calls) :
          /\ mesh_state.tag = "Meshed"
          /\ call.arg = mesh_state.count
          /\ call.op = IF variant = "mesh_chunk" THEN "DrawElements" ELSE "DrawArrays"

\* The indexed mesher meshed a lone block, 24 vertices, and the mesh was
\* drawn with a count of 36.
C12_Witness ==
    /\ variant = "mesh_chunk"
    /\ Len(pass.vertices) = 24
    /\ mesh_state.tag = "Meshed"
    /\ gl_calls = <<GlCall("BindVertexArray", mesh_state.vao), GlCall("DrawElements", 36)>>

\* ------------------------------------------------------ driver failure
\* The steps of the log by which the driver created nothing.
FailedGen(calls) ==
    {call \in CallsOf(calls, {"GenBuffers", "GenVertexArrays"}) : call.arg = 0}

\* C13: when the driver creates no buffer or no vertex array during upload,
\* the outcome is neither Empty nor Meshed; a Meshed outcome never wraps the
\* identifier 0.
C13_FailureIsDistinct ==
    /\ FailedGen(gl_calls) /= {} => mesh_state.tag \notin {"Empty", "Meshed"}
    /\ mesh_state.tag = "Meshed" => (mesh_state.vbo /= 0 /\ mesh_state.vao /= 0)

\* What the code does instead: every upload of a non-empty vertex list is
\* Meshed, with the 0 for each object the driver did not create.
C13_FailureIsMeshed ==
    FailedGen(gl_calls) /= {} =>
        /\ mesh_state.tag = "Meshed"
        /\ (mesh_state.vbo = 0 \/ mesh_state.vao = 0)
        /\ GlCall("GenBuffers", mesh_state.vbo) \in CallsOf(gl_calls, {"GenBuffers"})
        /\ GlCall("GenVertexArrays", mesh_state.vao)
             \in CallsOf(gl_calls, {"GenVertexArrays"})

\* ------------------------------------------------------------- workers
\* The vertex list worker w would hand to upload running alone on a fresh
\* thread state.
Alone(t) ==
    mesh_chunk_vertices(MesherThreadState_new, chunks[t.chunk],
        ChunkWithEdge(chunks[t.chunk], {chunks[p] : p \in t.nb})).vertices

\* C14: under every interleaving of the steps of two workers, a step that is
\* not worker w's leaves w's thread state as it was, no step changes chunk
\* data, and the vertex list w ends its call with is the list it would
\* produce alone.
C14_WorkersIndependent ==
    [][/\ chunks' = chunks
       /\ \A w \in Workers :
            /\ threads'[w] = threads[w] => states'[w] = states[w]
            /\ (threads[w].pc = "loop" /\ threads'[w].pc = "idle") =>
                  /\ threads'[w].result = Alone(threads[w])
                  /\ states'[w].vertices = threads'[w].result]_vars

\* Both workers stand at the end of their traversals at once, on different
\* chunks, each with a vertex list of its own.
C14_Witness ==
    /\ \A w \in Workers : threads[w].pc = "loop" /\ threads[w].i = LoopEnd
    /\ threads[1].chunk /= threads[2].chunk
    /\ Len(states[1].vertices) > 0 /\ Len(states[2].vertices) > 0
    /\ states[1].vertices /= states[2].vertices

\* ----------------------------------------------- traversal and context
\* The place of a local coordinate in the traversal y, then z, then x.
TraversalRank(l) ==
    l[2] * CHUNK_SIZE * CHUNK_SIZE + l[3] * CHUNK_SIZE + l[1]

\* The cell next to local l of the pass's chunk in direction d, as the pass
\* was given it: the chunk's own cell, the cell of a chunk of the
\* neighbourhood, or air.
GivenNeighbour(l, d) ==
    LET n == Add3(l, d)
    IN  IF InChunk(n[1], n[2], n[3])
        THEN PassChunk.blocks[n]
        ELSE IF ChunkOf(Add3(PassAbs(l), d)) \in pass.nb
             THEN WorldBlock(Add3(PassAbs(l), d))
             ELSE air

\* C15: the bakery calls of an indexed pass come in the order y, then z,
\* then x of their coordinates, one for every non-air block of the chunk and
\* none for an air cell; each call carries the block, the six flags in the
\* order +x, +y, +z, -x, -y, -z, each true exactly when that neighbour is
\* not air, and the has-occlusion-data flag set.
C15_TraversalAndContext ==
    pass.done =>
        /\ \A k \in 1 .. (Len(pass.calls) - 1) :
              TraversalRank(pass.calls[k].pos) < TraversalRank(pass.calls[k + 1].pos)
        /\ {pass.calls[k].pos : k \in 1 .. Len(pass.calls)} = SolidLocals(PassChunk)
        /\ \A k \in 1 .. Len(pass.calls) :
              LET call == pass.calls[k]
              IN  /\ call.block = PassChunk.blocks[call.pos]
                  /\ call.block /= air
                  /\ call.context.has_data = TRUE
                  /\ call.context.occlusion =
                        << GivenNeighbour(call.pos, PX) /= air,
                           GivenNeighbour(call.pos, PY) /= air,
                           GivenNeighbour(call.pos, PZ) /= air,
                           GivenNeighbour(call.pos, NX) /= air,
                           GivenNeighbour(call.pos, NY) /= air,
                           GivenNeighbour(call.pos, NZ) /= air >>

\* A pass over a chunk with air cells and with blocks whose order tells the
\* three loops apart; the edge block is occluded from the chunk beyond the
\* edge and open to the other side.
C15_Witness ==
    /\ pass.done /\ pass.chunk = origin
    /\ SolidLocals(PassChunk)
         = {FocusLocal, <<CHUNK_SIZE - 2, 0, 1>>, <<CHUNK_SIZE - 1, 1, 0>>}
    /\ Len(pass.calls) = 3
    /\ pass.calls[1].pos = FocusLocal
    /\ pass.calls[2].pos = <<CHUNK_SIZE - 2, 0, 1>>
    /\ pass.calls[1].context.occlusion = <<TRUE, TRUE, FALSE, FALSE, FALSE, FALSE>>

\* ------------------------------------------------------ unchecked reads
PaddedRange ==
    0 .. (CHUNK_SIZE + 1)

\* C16: every index an indexed pass hands to get_unchecked lies in
\* 0 .. CHUNK_SIZE + 1 and inside the edge-padded block data, so no read
\* yields an undefined value; the reads are the cell itself for every local
\* coordinate and the six neighbours of every non-air cell, each at local
\* coordinate + 1.
C16_ReadsInRange ==
    pass.done =>
        /\ pass.reads \subseteq PaddedRange \X PaddedRange \X PaddedRange
        /\ \A idx \in pass.reads :
              /\ idx[1] \in DOMAIN PassData
              /\ idx[2] \in DOMAIN PassData[idx[1]]
              /\ idx[3] \in DOMAIN PassData[idx[1]][idx[2]]
              /\ get_unchecked(PassData, idx) \in Blocks
        /\ pass.reads =
              {<<l[2] + 1, l[3] + 1, l[1] + 1>> : l \in Locals}
              \cup {<<l[2] + d[2] + 1, l[3] + d[3] + 1, l[1] + d[1] + 1>> :
                        l \in SolidLocals(PassChunk), d \in Dirs}
        /\ \A k \in 1 .. Len(pass.calls) : pass.calls[k].block \in Blocks

\* A pass read the padding on both sides: index 0 below the edge block and
\* index CHUNK_SIZE + 1 beyond it.
C16_Witness ==
    /\ pass.done /\ pass.chunk = origin
    /\ FocusLocal \in SolidLocals(PassChunk)
    /\ <<0, 1, CHUNK_SIZE>> \in pass.reads
    /\ <<1, 1, CHUNK_SIZE + 1>> \in pass.reads
    /\ <<CHUNK_SIZE + 1, 1, CHUNK_SIZE>> \notin pass.reads
    /\ <<CHUNK_SIZE, CHUNK_SIZE, CHUNK_SIZE>> \in pass.reads

====
